---------------------------- MODULE Spec2Model ----------------------------
(***************************************************************************)
(* Closed-form 4x4 homogeneous-matrix algebra of matrix.py: transform and  *)
(* projection builders, the determinant / inverse engine (general and      *)
(* Euclidean), and the stereo (separation / convergence) corrections.      *)
(*                                                                         *)
(* Numbers are exact rationals <<num, den>> in lowest terms with den > 0.  *)
(* A zero denominator encodes the IEEE-754 specials that numpy's division  *)
(* produces: <<1,0>> = +inf, <<-1,0>> = -inf, <<0,0>> = nan.  Rounding of   *)
(* binary floating point is not modelled.                                  *)
(*                                                                         *)
(* The library is a set of pure functions: a state is one call site, i.e.  *)
(* the inputs a caller holds (M, par, coord), the function last applied to *)
(* them (op) and what it returned or raised (res).                         *)
(***************************************************************************)
EXTENDS Integers, Sequences, FiniteSets, TLC

VARIABLES
    M,      \* the caller's 4x4 matrix operand
    par,    \* the caller's scalar parameters (a record, per specification)
    coord,  \* the caller's homogeneous point <<x, y, z, w>>
    op,     \* name of the function last applied ("none" before any call)
    res     \* its outcome: [tag |-> "matrix"|"scalar"|..., val |-> ...]

vars == <<M, par, coord, op, res>>

---------------------------------------------------------------------------
(* Bounds of the model.                                                    *)

\* Cells overwritten in the integer input matrices take values -MaxEntry..MaxEntry.
MaxEntry == 1

---------------------------------------------------------------------------
(* Float arithmetic, exact.                                                *)

Abs(x) == IF x < 0 THEN -x ELSE x

Sgn(x) == IF x < 0 THEN -1 ELSE IF x > 0 THEN 1 ELSE 0

RECURSIVE GCD(_, _)
GCD(a, b) == IF b = 0 THEN a ELSE GCD(b, a % b)

\* n/d in lowest terms, d # 0
Norm(n, d) ==
    IF d = 1 THEN <<n, 1>>
    ELSE LET g == GCD(Abs(n), Abs(d))
             s == IF d < 0 THEN -1 ELSE 1
         IN  <<(s * n) \div g, (s * d) \div g>>

\* an integer literal as a float
R(i) == <<i, 1>>

Zero == R(0)
One == R(1)
NaN == <<0, 0>>

IsFinite(a) == a[2] # 0

\* a * b
Mul(a, b) ==
    IF IsFinite(a) /\ IsFinite(b) THEN Norm(a[1] * b[1], a[2] * b[2])
    ELSE IF a[1] = 0 \/ b[1] = 0 THEN NaN
    ELSE <<Sgn(a[1]) * Sgn(b[1]), 0>>

\* a + b
Add(a, b) ==
    IF IsFinite(a) /\ IsFinite(b) THEN Norm(a[1] * b[2] + b[1] * a[2], a[2] * b[2])
    ELSE IF a = NaN \/ b = NaN THEN NaN
    ELSE IF IsFinite(a) THEN b
    ELSE IF IsFinite(b) THEN a
    ELSE IF a = b THEN a ELSE NaN

\* -a
Neg(a) == <<-a[1], a[2]>>

\* a - b
Sub(a, b) == Add(a, Neg(b))

\* a / b on numpy scalars and arrays: division by zero yields inf or nan
\* (with a RuntimeWarning), it does not raise.
NpDiv(a, b) ==
    IF a = NaN \/ b = NaN THEN NaN
    ELSE IF IsFinite(a) /\ IsFinite(b) THEN
        IF b[1] # 0 THEN Norm(a[1] * b[2], a[2] * b[1])
        ELSE IF a[1] = 0 THEN NaN ELSE <<Sgn(a[1]), 0>>
    ELSE IF IsFinite(a) THEN Zero
    ELSE IF IsFinite(b) THEN <<a[1] * (IF b[1] < 0 THEN -1 ELSE 1), 0>>
    ELSE NaN

\* a * b * c and a * b * c * d, left to right
T3(a, b, c) == Mul(Mul(a, b), c)
T4(a, b, c, d) == Mul(Mul(Mul(a, b), c), d)

\* t1 + t2 + ... + tn, left to right
RECURSIVE SumTo(_, _)
SumTo(ts, k) == IF k = 1 THEN ts[1] ELSE Add(SumTo(ts, k - 1), ts[k])

Sum(ts) == SumTo(ts, Len(ts))

---------------------------------------------------------------------------
(* np.matrix: 4x4, indexed m[row][col] from 0.                             *)

Matrix(rows) == [i \in 0..3 |-> [j \in 0..3 |-> rows[i + 1][j + 1]]]

\* np.matrix of integer literals
IntMatrix(rows) == [i \in 0..3 |-> [j \in 0..3 |-> R(rows[i + 1][j + 1])]]

Identity == IntMatrix(<< <<1, 0, 0, 0>>, <<0, 1, 0, 0>>, <<0, 0, 1, 0>>, <<0, 0, 0, 1>> >>)

\* m1 * m2, the matrix product
MatMul(m1, m2) ==
    [i \in 0..3 |-> [j \in 0..3 |->
        Sum(<<Mul(m1[i][0], m2[0][j]), Mul(m1[i][1], m2[1][j]),
              Mul(m1[i][2], m2[2][j]), Mul(m1[i][3], m2[3][j])>>)]]

\* v * m2 for a row vector v = <<x, y, z, w>>
VecMul(v, m2) ==
    [j \in 1..4 |->
        Sum(<<Mul(v[1], m2[0][j - 1]), Mul(v[2], m2[1][j - 1]),
              Mul(v[3], m2[2][j - 1]), Mul(v[4], m2[3][j - 1])>>)]

\* n / d, every cell divided by the scalar d
MatDiv(n, d) == [i \in 0..3 |-> [j \in 0..3 |-> NpDiv(n[i][j], d)]]

\* outcomes of a call
Returned(tag, val) == [tag |-> tag, val |-> val]
Raised(exc) == [tag |-> "raise", val |-> exc]
NoResult == [tag |-> "none", val |-> "none"]

---------------------------------------------------------------------------
(* Determinant / inverse engine.                                           *)

determinant(m) ==
    Sum(<<
        T4(m[0][3], m[1][2], m[2][1], m[3][0]), Neg(T4(m[0][2], m[1][3], m[2][1], m[3][0])),
        Neg(T4(m[0][3], m[1][1], m[2][2], m[3][0])), T4(m[0][1], m[1][3], m[2][2], m[3][0]),
        T4(m[0][2], m[1][1], m[2][3], m[3][0]), Neg(T4(m[0][1], m[1][2], m[2][3], m[3][0])),
        Neg(T4(m[0][3], m[1][2], m[2][0], m[3][1])), T4(m[0][2], m[1][3], m[2][0], m[3][1]),
        T4(m[0][3], m[1][0], m[2][2], m[3][1]), Neg(T4(m[0][0], m[1][3], m[2][2], m[3][1])),
        Neg(T4(m[0][2], m[1][0], m[2][3], m[3][1])), T4(m[0][0], m[1][2], m[2][3], m[3][1]),
        T4(m[0][3], m[1][1], m[2][0], m[3][2]), Neg(T4(m[0][1], m[1][3], m[2][0], m[3][2])),
        Neg(T4(m[0][3], m[1][0], m[2][1], m[3][2])), T4(m[0][0], m[1][3], m[2][1], m[3][2]),
        T4(m[0][1], m[1][0], m[2][3], m[3][2]), Neg(T4(m[0][0], m[1][1], m[2][3], m[3][2])),
        Neg(T4(m[0][2], m[1][1], m[2][0], m[3][3])), T4(m[0][1], m[1][2], m[2][0], m[3][3]),
        T4(m[0][2], m[1][0], m[2][1], m[3][3]), Neg(T4(m[0][0], m[1][2], m[2][1], m[3][3])),
        Neg(T4(m[0][1], m[1][0], m[2][2], m[3][3])), T4(m[0][0], m[1][1], m[2][2], m[3][3]) >>)

\* A faulty variant of determinant_euclidean: the last term added instead of subtracted
determinant_euclidean_sign_slip(m) ==
    Sum(<<
        T3(m[0][0], m[1][1], m[2][2]), Neg(T3(m[0][0], m[1][2], m[2][1])),
        T3(m[0][1], m[1][2], m[2][0]), Neg(T3(m[0][1], m[1][0], m[2][2])),
        T3(m[0][2], m[1][0], m[2][1]), T3(m[0][2], m[1][1], m[2][0]) >>)

determinant_euclidean(m) ==
    Sum(<<
        T3(m[0][0], m[1][1], m[2][2]), Neg(T3(m[0][0], m[1][2], m[2][1])),
        T3(m[0][1], m[1][2], m[2][0]), Neg(T3(m[0][1], m[1][0], m[2][2])),
        T3(m[0][2], m[1][0], m[2][1]), Neg(T3(m[0][2], m[1][1], m[2][0])) >>)

_inverse_numerator(m) ==
    LET n00 == Sum(<<
                   T3(m[1][2], m[2][3], m[3][1]), Neg(T3(m[1][3], m[2][2], m[3][1])),
                   T3(m[1][3], m[2][1], m[3][2]), Neg(T3(m[1][1], m[2][3], m[3][2])),
                   Neg(T3(m[1][2], m[2][1], m[3][3])), T3(m[1][1], m[2][2], m[3][3]) >>)
        n01 == Sum(<<
                   T3(m[0][3], m[2][2], m[3][1]), Neg(T3(m[0][2], m[2][3], m[3][1])),
                   Neg(T3(m[0][3], m[2][1], m[3][2])), T3(m[0][1], m[2][3], m[3][2]),
                   T3(m[0][2], m[2][1], m[3][3]), Neg(T3(m[0][1], m[2][2], m[3][3])) >>)
        n02 == Sum(<<
                   T3(m[0][2], m[1][3], m[3][1]), Neg(T3(m[0][3], m[1][2], m[3][1])),
                   T3(m[0][3], m[1][1], m[3][2]), Neg(T3(m[0][1], m[1][3], m[3][2])),
                   Neg(T3(m[0][2], m[1][1], m[3][3])), T3(m[0][1], m[1][2], m[3][3]) >>)
        n03 == Sum(<<
                   T3(m[0][3], m[1][2], m[2][1]), Neg(T3(m[0][2], m[1][3], m[2][1])),
                   Neg(T3(m[0][3], m[1][1], m[2][2])), T3(m[0][1], m[1][3], m[2][2]),
                   T3(m[0][2], m[1][1], m[2][3]), Neg(T3(m[0][1], m[1][2], m[2][3])) >>)
        n10 == Sum(<<
                   T3(m[1][3], m[2][2], m[3][0]), Neg(T3(m[1][2], m[2][3], m[3][0])),
                   Neg(T3(m[1][3], m[2][0], m[3][2])), T3(m[1][0], m[2][3], m[3][2]),
                   T3(m[1][2], m[2][0], m[3][3]), Neg(T3(m[1][0], m[2][2], m[3][3])) >>)
        n11 == Sum(<<
                   T3(m[0][2], m[2][3], m[3][0]), Neg(T3(m[0][3], m[2][2], m[3][0])),
                   T3(m[0][3], m[2][0], m[3][2]), Neg(T3(m[0][0], m[2][3], m[3][2])),
                   Neg(T3(m[0][2], m[2][0], m[3][3])), T3(m[0][0], m[2][2], m[3][3]) >>)
        n12 == Sum(<<
                   T3(m[0][3], m[1][2], m[3][0]), Neg(T3(m[0][2], m[1][3], m[3][0])),
                   Neg(T3(m[0][3], m[1][0], m[3][2])), T3(m[0][0], m[1][3], m[3][2]),
                   T3(m[0][2], m[1][0], m[3][3]), Neg(T3(m[0][0], m[1][2], m[3][3])) >>)
        n13 == Sum(<<
                   T3(m[0][2], m[1][3], m[2][0]), Neg(T3(m[0][3], m[1][2], m[2][0])),
                   T3(m[0][3], m[1][0], m[2][2]), Neg(T3(m[0][0], m[1][3], m[2][2])),
                   Neg(T3(m[0][2], m[1][0], m[2][3])), T3(m[0][0], m[1][2], m[2][3]) >>)
        n20 == Sum(<<
                   T3(m[1][1], m[2][3], m[3][0]), Neg(T3(m[1][3], m[2][1], m[3][0])),
                   T3(m[1][3], m[2][0], m[3][1]), Neg(T3(m[1][0], m[2][3], m[3][1])),
                   Neg(T3(m[1][1], m[2][0], m[3][3])), T3(m[1][0], m[2][1], m[3][3]) >>)
        n21 == Sum(<<
                   T3(m[0][3], m[2][1], m[3][0]), Neg(T3(m[0][1], m[2][3], m[3][0])),
                   Neg(T3(m[0][3], m[2][0], m[3][1])), T3(m[0][0], m[2][3], m[3][1]),
                   T3(m[0][1], m[2][0], m[3][3]), Neg(T3(m[0][0], m[2][1], m[3][3])) >>)
        n22 == Sum(<<
                   T3(m[0][1], m[1][3], m[3][0]), Neg(T3(m[0][3], m[1][1], m[3][0])),
                   T3(m[0][3], m[1][0], m[3][1]), Neg(T3(m[0][0], m[1][3], m[3][1])),
                   Neg(T3(m[0][1], m[1][0], m[3][3])), T3(m[0][0], m[1][1], m[3][3]) >>)
        n23 == Sum(<<
                   T3(m[0][3], m[1][1], m[2][0]), Neg(T3(m[0][1], m[1][3], m[2][0])),
                   Neg(T3(m[0][3], m[1][0], m[2][1])), T3(m[0][0], m[1][3], m[2][1]),
                   T3(m[0][1], m[1][0], m[2][3]), Neg(T3(m[0][0], m[1][1], m[2][3])) >>)
        n30 == Sum(<<
                   T3(m[1][2], m[2][1], m[3][0]), Neg(T3(m[1][1], m[2][2], m[3][0])),
                   Neg(T3(m[1][2], m[2][0], m[3][1])), T3(m[1][0], m[2][2], m[3][1]),
                   T3(m[1][1], m[2][0], m[3][2]), Neg(T3(m[1][0], m[2][1], m[3][2])) >>)
        n31 == Sum(<<
                   T3(m[0][1], m[2][2], m[3][0]), Neg(T3(m[0][2], m[2][1], m[3][0])),
                   T3(m[0][2], m[2][0], m[3][1]), Neg(T3(m[0][0], m[2][2], m[3][1])),
                   Neg(T3(m[0][1], m[2][0], m[3][2])), T3(m[0][0], m[2][1], m[3][2]) >>)
        n32 == Sum(<<
                   T3(m[0][2], m[1][1], m[3][0]), Neg(T3(m[0][1], m[1][2], m[3][0])),
                   Neg(T3(m[0][2], m[1][0], m[3][1])), T3(m[0][0], m[1][2], m[3][1]),
                   T3(m[0][1], m[1][0], m[3][2]), Neg(T3(m[0][0], m[1][1], m[3][2])) >>)
        n33 == Sum(<<
                   T3(m[0][1], m[1][2], m[2][0]), Neg(T3(m[0][2], m[1][1], m[2][0])),
                   T3(m[0][2], m[1][0], m[2][1]), Neg(T3(m[0][0], m[1][2], m[2][1])),
                   Neg(T3(m[0][1], m[1][0], m[2][2])), T3(m[0][0], m[1][1], m[2][2]) >>)
        n == Matrix(<< <<n00, n01, n02, n03>>, <<n10, n11, n12, n13>>,
                       <<n20, n21, n22, n23>>, <<n30, n31, n32, n33>> >>)
    IN  n

\* A faulty variant of _inverse: the cofactor matrix is not transposed into the adjugate
_inverse_untransposed(m, d) ==
    MatDiv([i \in 0..3 |-> [j \in 0..3 |-> _inverse_numerator(m)[j][i]]], d)

_inverse(m, d) == MatDiv(_inverse_numerator(m), d)

inverse(m) == _inverse(m, determinant(m))

_inverse_euclidean(m, d) ==
    LET n00 == Sub(Mul(m[1][1], m[2][2]), Mul(m[1][2], m[2][1]))
        n10 == Sub(Mul(m[1][2], m[2][0]), Mul(m[1][0], m[2][2]))
        n20 == Sub(Mul(m[1][0], m[2][1]), Mul(m[1][1], m[2][0]))
        n01 == Sub(Mul(m[0][2], m[2][1]), Mul(m[0][1], m[2][2]))
        n11 == Sub(Mul(m[0][0], m[2][2]), Mul(m[0][2], m[2][0]))
        n21 == Sub(Mul(m[0][1], m[2][0]), Mul(m[0][0], m[2][1]))
        n02 == Sub(Mul(m[0][1], m[1][2]), Mul(m[0][2], m[1][1]))
        n12 == Sub(Mul(m[0][2], m[1][0]), Mul(m[0][0], m[1][2]))
        n22 == Sub(Mul(m[0][0], m[1][1]), Mul(m[0][1], m[1][0]))
        n03 == Zero
        n13 == Zero
        n23 == Zero
        n30 == Sub(Sub(Neg(Mul(m[3][0], n00)), Mul(m[3][1], n10)), Mul(m[3][2], n20))
        n31 == Sub(Sub(Neg(Mul(m[3][0], n01)), Mul(m[3][1], n11)), Mul(m[3][2], n21))
        n32 == Sub(Sub(Neg(Mul(m[3][0], n02)), Mul(m[3][1], n12)), Mul(m[3][2], n22))
        n33 == Add(Add(Mul(m[0][0], n00), Mul(m[0][1], n10)), Mul(m[0][2], n20))
        n == Matrix(<< <<n00, n01, n02, n03>>, <<n10, n11, n12, n13>>,
                       <<n20, n21, n22, n23>>, <<n30, n31, n32, n33>> >>)
    IN  MatDiv(n, d)

inverse_euclidean(m) == _inverse_euclidean(m, determinant_euclidean(m))

---------------------------------------------------------------------------
(* Transform builders and projection builder.                              *)

\* a < b, for finite a and b
Less(a, b) == a[1] * b[2] < b[1] * a[2]

\* a / b on Python scalars; the callers test b = 0 first, where Python
\* raises ZeroDivisionError
PyDiv(a, b) == Norm(a[1] * b[2], a[2] * b[1])

\* A faulty variant of translate: the offset in the last column (column-vector convention)
translate_last_column(x, y, z) ==
    Matrix(<< <<One,  Zero, Zero, x>>,
              <<Zero, One,  Zero, y>>,
              <<Zero, Zero, One,  z>>,
              <<Zero, Zero, Zero, One>> >>)

translate(x, y, z) ==
    Matrix(<< <<One,  Zero, Zero, Zero>>,
              <<Zero, One,  Zero, Zero>>,
              <<Zero, Zero, One,  Zero>>,
              <<x,    y,    z,    One>> >>)

scale(x, y, z) ==
    Matrix(<< <<x,    Zero, Zero, Zero>>,
              <<Zero, y,    Zero, Zero>>,
              <<Zero, Zero, z,    Zero>>,
              <<Zero, Zero, Zero, One>> >>)

\* Field-of-view angles of the model, in degrees.  Fov53 is 2*atan(1/2)
\* (53.13 degrees to two decimal places).
Fov53 == <<5313, 100>>
Fov90 == R(90)
Fov270 == R(270)

\* tan(radians(fov) / 2)
TanHalf(fov) ==
    CASE fov = Fov53  -> <<1, 2>>
      [] fov = Fov90  -> One
      [] fov = Fov270 -> R(-1)

\* what w, h and q of lines 67-69 raise, if anything
ProjectionRaises(near, far, fov_horiz, fov_vert) ==
    \/ TanHalf(fov_horiz) = Zero
    \/ TanHalf(fov_vert) = Zero
    \/ Sub(far, near) = Zero

projection(near, far, fov_horiz, fov_vert) ==
    IF ProjectionRaises(near, far, fov_horiz, fov_vert) THEN Raised("ZeroDivisionError")
    ELSE
    LET w == PyDiv(One, TanHalf(fov_horiz))
        h == PyDiv(One, TanHalf(fov_vert))
        q == PyDiv(far, Sub(far, near))
    IN  Returned("matrix", Matrix(<<
            <<w,    Zero, Zero,              Zero>>,
            <<Zero, h,    Zero,              Zero>>,
            <<Zero, Zero, q,                 One>>,
            <<Zero, Zero, Mul(Neg(q), near), Zero>> >>))

projection_nv_equiv(near, far, fov_horiz, fov_vert, separation, convergence) ==
    IF ProjectionRaises(near, far, fov_horiz, fov_vert) THEN Raised("ZeroDivisionError")
    ELSE
    LET w == PyDiv(One, TanHalf(fov_horiz))
        h == PyDiv(One, TanHalf(fov_vert))
        q == PyDiv(far, Sub(far, near))
        left == Matrix(<<
            <<w,                            Zero, Zero,              Zero>>,
            <<Zero,                         h,    Zero,              Zero>>,
            <<Neg(separation),              Zero, q,                 One>>,
            <<Mul(separation, convergence), Zero, Mul(Neg(q), near), Zero>> >>)
        right == Matrix(<<
            <<w,                                 Zero, Zero,              Zero>>,
            <<Zero,                              h,    Zero,              Zero>>,
            <<separation,                        Zero, q,                 One>>,
            <<Mul(Neg(separation), convergence), Zero, Mul(Neg(q), near), Zero>> >>)
    IN  Returned("pair", <<left, right>>)

\* what q of line 109 / 122 and the divisions by q*near and near raise
MultiplierRaises(near, far) ==
    \/ Sub(far, near) = Zero
    \/ Mul(PyDiv(far, Sub(far, near)), near) = Zero
    \/ near = Zero

\* A faulty variant of nv_equiv_multiplier: cell (3,0) is sep + (sep*conv)/near
nv_equiv_multiplier_sign_slip(near, far, sep, conv) ==
    IF MultiplierRaises(near, far) THEN Raised("ZeroDivisionError")
    ELSE
    LET q == PyDiv(far, Sub(far, near))
    IN  Returned("matrix", Matrix(<<
            <<One,                                     Zero, Zero, Zero>>,
            <<Zero,                                    One,  Zero, Zero>>,
            <<PyDiv(Mul(sep, conv), Mul(q, near)),     Zero, One,  Zero>>,
            <<Add(sep, PyDiv(Mul(sep, conv), near)),   Zero, Zero, One>> >>))

nv_equiv_multiplier(near, far, sep, conv) ==
    IF MultiplierRaises(near, far) THEN Raised("ZeroDivisionError")
    ELSE
    LET q == PyDiv(far, Sub(far, near))
    IN  Returned("matrix", Matrix(<<
            <<One,                                     Zero, Zero, Zero>>,
            <<Zero,                                    One,  Zero, Zero>>,
            <<PyDiv(Mul(sep, conv), Mul(q, near)),     Zero, One,  Zero>>,
            <<Sub(sep, PyDiv(Mul(sep, conv), near)),   Zero, Zero, One>> >>))

\* A faulty variant of nv_equiv_multiplier_inv: only the first term of cell (3,0) is negated
nv_equiv_multiplier_inv_half_negated(near, far, sep, conv) ==
    IF MultiplierRaises(near, far) THEN Raised("ZeroDivisionError")
    ELSE
    LET q == PyDiv(far, Sub(far, near))
    IN  Returned("matrix", Matrix(<<
            <<One,                                        Zero, Zero, Zero>>,
            <<Zero,                                       One,  Zero, Zero>>,
            <<PyDiv(Neg(Mul(sep, conv)), Mul(q, near)),   Zero, One,  Zero>>,
            <<Sub(Neg(sep), PyDiv(Mul(sep, conv), near)), Zero, Zero, One>> >>))

nv_equiv_multiplier_inv(near, far, sep, conv) ==
    IF MultiplierRaises(near, far) THEN Raised("ZeroDivisionError")
    ELSE
    LET q == PyDiv(far, Sub(far, near))
    IN  Returned("matrix", Matrix(<<
            <<One,                                        Zero, Zero, Zero>>,
            <<Zero,                                       One,  Zero, Zero>>,
            <<PyDiv(Neg(Mul(sep, conv)), Mul(q, near)),   Zero, One,  Zero>>,
            <<Add(Neg(sep), PyDiv(Mul(sep, conv), near)), Zero, Zero, One>> >>))

\* m.I, numpy's matrix inverse, for a nonsingular m (numpy raises
\* LinAlgError on a singular one)
MatrixI(m) == _inverse(m, determinant(m))

\* v / s, every component divided by the scalar s
VecDiv(v, s) == [j \in 1..4 |-> NpDiv(v[j], s)]

\* A faulty variant of find_near_far: the pre-images are not normalised by their w
find_near_far_unnormalised(m) ==
    IF determinant(m) = Zero THEN Raised("LinAlgError")
    ELSE
    LET mI == MatrixI(m)
        near_origin == VecMul(<<Zero, Zero, Zero, One>>, mI)
        near == VecMul(near_origin, m)[4]
        far_origin == VecMul(<<Zero, Zero, One, One>>, mI)
        far == VecMul(far_origin, m)[4]
    IN  Returned("pair", <<near, far>>)

find_near_far(m) ==
    IF determinant(m) = Zero THEN Raised("LinAlgError")
    ELSE
    LET mI == MatrixI(m)
        near_origin0 == VecMul(<<Zero, Zero, Zero, One>>, mI)
        near_origin == VecDiv(near_origin0, near_origin0[4])
        near == VecMul(near_origin, m)[4]
        far_origin0 == VecMul(<<Zero, Zero, One, One>>, mI)
        far_origin == VecDiv(far_origin0, far_origin0[4])
        far == VecMul(far_origin, m)[4]
    IN  Returned("pair", <<near, far>>)

\* A faulty variant of adjustment: separation * (w + convergence)
adjustment_plus(w, separation, convergence) == Mul(separation, Add(w, convergence))

adjustment(w, separation, convergence) == Mul(separation, Sub(w, convergence))

correct(c, separation, convergence) ==
    LET x == c[1]
        y == c[2]
        z == c[3]
        w == c[4]
        a == adjustment(w, separation, convergence)
    IN  Returned("pair", << <<Sub(x, a), y, z, w>>, <<Add(x, a), y, z, w>> >>)

\* A faulty variant of inverse_matrix_euclidean_m0: the two products of m01 swapped
inverse_matrix_euclidean_m0_swapped(m, d) ==
    LET m00 == Sub(Mul(m[1][1], m[2][2]), Mul(m[1][2], m[2][1]))
        m01 == Sub(Mul(m[0][1], m[2][2]), Mul(m[0][2], m[2][1]))
        m02 == Sub(Mul(m[0][1], m[1][2]), Mul(m[0][2], m[1][1]))
    IN  <<NpDiv(m00, d), NpDiv(m01, d), NpDiv(m02, d), Zero>>

inverse_matrix_euclidean_m0(m, d) ==
    LET m00 == Sub(Mul(m[1][1], m[2][2]), Mul(m[1][2], m[2][1]))
        m01 == Sub(Mul(m[0][2], m[2][1]), Mul(m[0][1], m[2][2]))
        m02 == Sub(Mul(m[0][1], m[1][2]), Mul(m[0][2], m[1][1]))
    IN  <<NpDiv(m00, d), NpDiv(m01, d), NpDiv(m02, d), Zero>>

mv_mvp_m00i(mv, mvp) ==
    LET d == determinant_euclidean(mv)
        mvi == inverse_matrix_euclidean_m0(mv, d)
        p00 == Add(Add(Mul(mvi[1], mvp[0][0]), Mul(mvi[2], mvp[1][0])),
                   Mul(mvi[3], mvp[2][0]))
    IN  NpDiv(One, p00)

---------------------------------------------------------------------------
(* Inputs of the determinant / inverse engine: integer matrices.           *)

Entries == (0 - MaxEntry)..MaxEntry

Dense ==
    IntMatrix(<< <<1, 2, 3, 4>>, <<2, 3, 1, 2>>, <<1, 1, 2, 3>>, <<3, 1, 2, 1>> >>)

DenseEuclidean ==
    IntMatrix(<< <<1, 2, 3, 0>>, <<2, 3, 1, 0>>, <<1, 1, 2, 0>>, <<3, 1, 2, 1>> >>)

BaseMatrices == {Identity, Dense, DenseEuclidean}

\* m[i,j] = v
SetCell(mat, i, j, v) == [mat EXCEPT ![i][j] = R(v)]

\* every base matrix with up to two cells overwritten
Matrices ==
    { SetCell(SetCell(b, i, j, v), k, l, u) :
        b \in BaseMatrices, i \in 0..3, j \in 0..3, v \in Entries,
        k \in 0..3, l \in 0..3, u \in Entries }

\* the 4th column is 0,0,0,1
IsEuclidean(mat) ==
    mat[0][3] = Zero /\ mat[1][3] = Zero /\ mat[2][3] = Zero /\ mat[3][3] = One

NoPar == [none |-> TRUE]
NoCoord == <<Zero, Zero, Zero, One>>

InitInverse ==
    /\ M \in Matrices
    /\ par = NoPar
    /\ coord = NoCoord
    /\ op = "none"
    /\ res = NoResult

Determinant ==
    /\ op' = "determinant"
    /\ res' = Returned("scalar", determinant(M))
    /\ UNCHANGED <<M, par, coord>>

DeterminantEuclidean ==
    /\ op' = "determinant_euclidean"
    /\ res' = Returned("scalar", determinant_euclidean(M))
    /\ UNCHANGED <<M, par, coord>>

Inverse ==
    /\ op' = "inverse"
    /\ res' = Returned("matrix", inverse(M))
    /\ UNCHANGED <<M, par, coord>>

InverseEuclidean ==
    /\ op' = "inverse_euclidean"
    /\ res' = Returned("matrix", inverse_euclidean(M))
    /\ UNCHANGED <<M, par, coord>>

NextInverse == Determinant \/ DeterminantEuclidean \/ Inverse \/ InverseEuclidean

SpecInverse == InitInverse /\ [][NextInverse]_vars

(* C1: for every matrix m with determinant(m) # 0, m x inverse(m) is the   *)
(* identity matrix; and for every m, m times the cofactor numerators n of  *)
(* _inverse is determinant(m) times the identity.                          *)
C1_InverseIsRightInverse ==
    op = "inverse" =>
        /\ determinant(M) # Zero => MatMul(M, res.val) = Identity
        /\ MatMul(M, _inverse_numerator(M)) =
               [i \in 0..3 |-> [j \in 0..3 |-> IF i = j THEN determinant(M) ELSE Zero]]

C1_Witness ==
    /\ op = "inverse"
    /\ determinant(M) # Zero
    /\ ~IsEuclidean(M)
    /\ res.tag = "matrix"
    /\ res.val # Identity

(* C2: for every matrix m whose last column is (0,0,0,1),                  *)
(* determinant_euclidean(m) = determinant(m) and, when that determinant is *)
(* nonzero, inverse_euclidean(m) = inverse(m) cell by cell, with last      *)
(* column (0,0,0,1).                                                       *)
C2_EuclideanAgreesWithGeneral ==
    IsEuclidean(M) =>
        /\ op = "determinant_euclidean" => res.val = determinant(M)
        /\ (op = "inverse_euclidean" /\ determinant(M) # Zero) =>
                /\ res.val = inverse(M)
                /\ IsEuclidean(res.val)

C2_Witness ==
    /\ op = "inverse_euclidean"
    /\ IsEuclidean(M)
    /\ determinant(M) \notin {Zero, One}
    /\ M[3][0] # Zero
    /\ res.val[3][0] # Zero
    /\ res.val[3][3] = One

(* C4: inverse(m) on a singular matrix (determinant(m) = 0) raises and     *)
(* never returns a matrix.                                                 *)
C4_SingularInverseRaises ==
    (op = "inverse" /\ determinant(M) = Zero) => res.tag = "raise"

---------------------------------------------------------------------------
(* Projection and stereo correction: parameters drawn at Init.             *)

\* near and far range over the integers -1..MaxDist
MaxDist == 3

Dists == { R(i) : i \in (0 - 1)..MaxDist }
Fovs == {Fov53, Fov90, Fov270}
Seps == {Zero, <<1, 10>>, One}
Convs == {Zero, <<1, 2>>, R(2)}

Params ==
    [near : Dists, far : Dists, fov_horiz : Fovs, fov_vert : Fovs,
     separation : Seps, convergence : Convs]

\* the documented domain: 0 < near < far, both FOVs in (0, 180) degrees
ValidFov(fov) == Less(Zero, fov) /\ Less(fov, R(180))

ValidPar(p) ==
    /\ Less(Zero, p.near)
    /\ Less(p.near, p.far)
    /\ ValidFov(p.fov_horiz)
    /\ ValidFov(p.fov_vert)

ValidParams == { p \in Params : ValidPar(p) }

InitStereo ==
    /\ M = Dense
    /\ par \in Params
    /\ coord = NoCoord
    /\ op = "none"
    /\ res = NoResult

Projection ==
    /\ op' = "projection"
    /\ res' = projection(par.near, par.far, par.fov_horiz, par.fov_vert)
    /\ UNCHANGED <<M, par, coord>>

ProjectionNvEquiv ==
    /\ op' = "projection_nv_equiv"
    /\ res' = projection_nv_equiv(par.near, par.far, par.fov_horiz, par.fov_vert,
                                  par.separation, par.convergence)
    /\ UNCHANGED <<M, par, coord>>

NvEquivMultiplier ==
    /\ op' = "nv_equiv_multiplier"
    /\ res' = nv_equiv_multiplier(par.near, par.far, par.separation, par.convergence)
    /\ UNCHANGED <<M, par, coord>>

NvEquivMultiplierInv ==
    /\ op' = "nv_equiv_multiplier_inv"
    /\ res' = nv_equiv_multiplier_inv(par.near, par.far, par.separation, par.convergence)
    /\ UNCHANGED <<M, par, coord>>

NextStereo ==
    \/ Projection
    \/ ProjectionNvEquiv
    \/ NvEquivMultiplier
    \/ NvEquivMultiplierInv

SpecStereo == InitStereo /\ [][NextStereo]_vars

\* The projection builder and its inverse query alone: no stereo correction.
InitProjection ==
    /\ M = Identity
    /\ par \in { p \in Params : p.separation = Zero /\ p.convergence = Zero }
    /\ coord = NoCoord
    /\ op = "none"
    /\ res = NoResult

\* find_near_far(projection(near, far, fov_horiz, fov_vert))
FindNearFar ==
    /\ op' = "find_near_far"
    /\ LET p == projection(par.near, par.far, par.fov_horiz, par.fov_vert)
       IN  res' = IF p.tag = "raise" THEN p ELSE find_near_far(p.val)
    /\ UNCHANGED <<M, par, coord>>

NextProjection == Projection \/ FindNearFar

SpecProjection == InitProjection /\ [][NextProjection]_vars

\* the mono projection and the stereo pair of the state's parameters
ParProjection == projection(par.near, par.far, par.fov_horiz, par.fov_vert).val
ParPair ==
    projection_nv_equiv(par.near, par.far, par.fov_horiz, par.fov_vert,
                        par.separation, par.convergence).val

(* C3: for 0 < near < far and valid FOVs, projection x nv_equiv_multiplier *)
(* equals the right-eye matrix of projection_nv_equiv: cell (2,0) is s,    *)
(* cell (3,0) is -s*c, every other cell is the mono projection's.          *)
C3_MultiplierGivesRightEye ==
    (op = "nv_equiv_multiplier" /\ ValidPar(par)) =>
        /\ res.tag = "matrix"
        /\ LET prod == MatMul(ParProjection, res.val)
           IN  /\ prod = ParPair[2]
               /\ prod[2][0] = par.separation
               /\ prod[3][0] = Neg(Mul(par.separation, par.convergence))
               /\ \A i \in 0..3 : \A j \in 0..3 :
                    (j # 0 \/ i < 2) => prod[i][j] = ParProjection[i][j]

C3_Witness ==
    /\ op = "nv_equiv_multiplier"
    /\ ValidPar(par)
    /\ par.separation # Zero
    /\ par.convergence # Zero
    /\ par.far # Mul(R(2), par.near)
    /\ res.tag = "matrix"
    /\ res.val[2][0] # Zero
    /\ res.val[3][0] # Zero

(* C5 as stated: for near # far and near # 0, multiplier x inverse and     *)
(* inverse x multiplier are both the identity.                             *)
C5_AsStated ==
    (op = "nv_equiv_multiplier" /\ par.near # par.far /\ par.near # Zero) =>
        /\ res.tag = "matrix"
        /\ LET inv == nv_equiv_multiplier_inv(par.near, par.far,
                                              par.separation, par.convergence)
           IN  /\ inv.tag = "matrix"
               /\ MatMul(res.val, inv.val) = Identity
               /\ MatMul(inv.val, res.val) = Identity

(* C5 amended: for near # far, near # 0 and far # 0, multiplier x inverse  *)
(* and inverse x multiplier are both the identity, and a composite matrix  *)
(* with the correction injected and then removed is unchanged.             *)
C5_MultiplierInverse ==
    (op = "nv_equiv_multiplier" /\ par.near # par.far /\ par.near # Zero
        /\ par.far # Zero) =>
        /\ res.tag = "matrix"
        /\ LET inv == nv_equiv_multiplier_inv(par.near, par.far,
                                              par.separation, par.convergence)
           IN  /\ inv.tag = "matrix"
               /\ MatMul(res.val, inv.val) = Identity
               /\ MatMul(inv.val, res.val) = Identity
               /\ MatMul(MatMul(M, res.val), inv.val) = M

C5_Witness ==
    /\ op = "nv_equiv_multiplier"
    /\ Less(par.far, par.near)
    /\ par.far # Zero
    /\ par.separation # Zero
    /\ par.convergence # Zero
    /\ res.tag = "matrix"
    /\ res.val[2][0] # Zero
    /\ res.val[3][0] # Zero
    /\ MatMul(M, res.val) # M

(* C7: for 0 < near < far and valid FOVs,                                  *)
(* find_near_far(projection(near, far, fov_h, fov_v)) returns (near, far). *)
C7_NearFarRoundTrip ==
    (op = "find_near_far" /\ ValidPar(par)) =>
        /\ res.tag = "pair"
        /\ res.val = <<par.near, par.far>>

C7_Witness ==
    /\ op = "find_near_far"
    /\ ValidPar(par)
    /\ par.near # One
    /\ par.fov_horiz # par.fov_vert
    /\ res.tag = "pair"

(* C10: projection rejects every domain-invalid input (a FOV >= 180        *)
(* degrees, near >= far, near <= 0 or far <= 0) and never returns a matrix *)
(* for it.                                                                 *)
C10_ProjectionRejectsInvalid ==
    (op = "projection" /\ ~ValidPar(par)) => res.tag = "raise"

---------------------------------------------------------------------------
(* Point correction against the matrix-level shear.                        *)

\* view-space points have x, y, z in -MaxCoord..MaxCoord and w = 1
MaxCoord == 1

Coords ==
    { <<R(x), R(y), R(z), One>> :
        x \in (0 - MaxCoord)..MaxCoord, y \in (0 - MaxCoord)..MaxCoord,
        z \in (0 - MaxCoord)..MaxCoord }

InitCorrect ==
    /\ M = Identity
    /\ par \in ValidParams
    /\ coord \in Coords
    /\ op = "none"
    /\ res = NoResult

\* correct(coord * projection(near, far, fov_horiz, fov_vert), separation, convergence)
Correct ==
    /\ op' = "correct"
    /\ LET p == projection(par.near, par.far, par.fov_horiz, par.fov_vert)
       IN  res' = IF p.tag = "raise" THEN p
                  ELSE correct(VecMul(coord, p.val), par.separation, par.convergence)
    /\ UNCHANGED <<M, par, coord>>

\* adjustment(w, separation, convergence) alone, on the projected point's w
Adjustment ==
    /\ op' = "adjustment"
    /\ res' = Returned("scalar",
                  adjustment(VecMul(coord, ParProjection)[4], par.separation,
                             par.convergence))
    /\ UNCHANGED <<M, par, coord>>

NextCorrect == Correct \/ Adjustment

SpecCorrect == InitCorrect /\ [][NextCorrect]_vars

(* C6: for every view-space point p = (x,y,z,1) and valid projection P     *)
(* with stereo pair (L, R), correct(p x P, s, c) returns (p x L, p x R):   *)
(* with a = s*(w - c) on the projected point only x is shifted, by -a for  *)
(* the left eye and +a for the right eye.                                  *)
C6_CorrectAgreesWithShear ==
    (op = "correct") =>
        /\ res.tag = "pair"
        /\ res.val = <<VecMul(coord, ParPair[1]), VecMul(coord, ParPair[2])>>
        /\ LET pp == VecMul(coord, ParProjection)
               a == Mul(par.separation, Sub(pp[4], par.convergence))
           IN  /\ res.val[1] = <<Sub(pp[1], a), pp[2], pp[3], pp[4]>>
               /\ res.val[2] = <<Add(pp[1], a), pp[2], pp[3], pp[4]>>

C6_Witness ==
    /\ op = "correct"
    /\ coord[1] # Zero
    /\ coord[3] # Zero
    /\ par.separation # Zero
    /\ par.convergence # Zero
    /\ res.tag = "pair"
    /\ res.val[1][1] # res.val[2][1]
    /\ res.val[1][1] # VecMul(coord, ParProjection)[1]

---------------------------------------------------------------------------
(* Model-view / model-view-projection shortcut.                            *)

\* model-view matrices: Euclidean base matrices with one cell of the first
\* three columns overwritten.  The vertical FOV is held at 90 degrees: h does
\* not enter column 0 of mv * p, the only column mv_mvp_m00i reads.
MvMatrices ==
    { SetCell(b, i, j, v) :
        b \in {Identity, DenseEuclidean}, i \in 0..3, j \in 0..2, v \in Entries }

InitMvp ==
    /\ M \in MvMatrices
    /\ par \in { p \in ValidParams : p.fov_vert = Fov90 }
    /\ coord = NoCoord
    /\ op = "none"
    /\ res = NoResult

\* mv_mvp_m00i(mv, mv * p), as random_mvp composes mv * p
MvMvpMono ==
    /\ op' = "mv_mvp_m00i(mv, mv*projection)"
    /\ res' = Returned("scalar", mv_mvp_m00i(M, MatMul(M, ParProjection)))
    /\ UNCHANGED <<M, par, coord>>

MvMvpLeft ==
    /\ op' = "mv_mvp_m00i(mv, mv*left)"
    /\ res' = Returned("scalar", mv_mvp_m00i(M, MatMul(M, ParPair[1])))
    /\ UNCHANGED <<M, par, coord>>

MvMvpRight ==
    /\ op' = "mv_mvp_m00i(mv, mv*right)"
    /\ res' = Returned("scalar", mv_mvp_m00i(M, MatMul(M, ParPair[2])))
    /\ UNCHANGED <<M, par, coord>>

InverseMatrixEuclideanM0 ==
    /\ op' = "inverse_matrix_euclidean_m0"
    /\ res' = Returned("row", inverse_matrix_euclidean_m0(M, determinant_euclidean(M)))
    /\ UNCHANGED <<M, par, coord>>

NextMvp == MvMvpMono \/ MvMvpLeft \/ MvMvpRight \/ InverseMatrixEuclideanM0

SpecMvp == InitMvp /\ [][NextMvp]_vars

\* the projection matrix the last mv_mvp_m00i call composed with
MvpProjection ==
    CASE op = "mv_mvp_m00i(mv, mv*projection)" -> ParProjection
      [] op = "mv_mvp_m00i(mv, mv*left)" -> ParPair[1]
      [] op = "mv_mvp_m00i(mv, mv*right)" -> ParPair[2]

MvpOps ==
    {"mv_mvp_m00i(mv, mv*projection)", "mv_mvp_m00i(mv, mv*left)",
     "mv_mvp_m00i(mv, mv*right)"}

(* C8: for a model-view matrix MV with last column (0,0,0,1) and nonzero   *)
(* determinant_euclidean, and P from projection or projection_nv_equiv,    *)
(* mv_mvp_m00i(MV, MV x P) is the top-left cell of the inverse of P, which *)
(* is 1 / P[0,0]; and inverse_matrix_euclidean_m0(MV, d) is row 0 of       *)
(* inverse_euclidean(MV).                                                  *)
C8_MvMvpTopLeft ==
    (IsEuclidean(M) /\ determinant_euclidean(M) # Zero) =>
        /\ op \in MvpOps =>
              /\ res.val = NpDiv(One, MvpProjection[0][0])
              /\ res.val = inverse(MvpProjection)[0][0]
        /\ op = "inverse_matrix_euclidean_m0" =>
              \A j \in 0..3 : res.val[j + 1] = inverse_euclidean(M)[0][j]

C8_Witness ==
    /\ op = "mv_mvp_m00i(mv, mv*left)"
    /\ IsEuclidean(M)
    /\ determinant_euclidean(M) \notin {Zero, One}
    /\ M[0][1] # Zero
    /\ par.separation # Zero
    /\ par.convergence # Zero
    /\ res.val \notin {Zero, One}

---------------------------------------------------------------------------
(* Transform builders composed and applied to a point.                     *)

\* translations have x, y, z in 0..MaxDist, scales are uniform 1..MaxDist
Translations ==
    { <<R(x), R(y), R(z)>> : x \in 0..MaxDist, y \in 0..MaxDist, z \in 0..MaxDist }

Scales == { <<R(k), R(k), R(k)>> : k \in 1..MaxDist }

UnitPoints ==
    { <<Zero, Zero, Zero, One>>, <<One, Zero, Zero, One>>,
      <<Zero, One, Zero, One>>, <<Zero, Zero, One, One>> }

InitTransform ==
    /\ M = Identity
    /\ par \in [t : Translations, s : Scales]
    /\ coord \in UnitPoints
    /\ op = "none"
    /\ res = NoResult

Translate ==
    /\ op' = "translate"
    /\ res' = Returned("matrix", translate(par.t[1], par.t[2], par.t[3]))
    /\ UNCHANGED <<M, par, coord>>

Scale ==
    /\ op' = "scale"
    /\ res' = Returned("matrix", scale(par.s[1], par.s[2], par.s[3]))
    /\ UNCHANGED <<M, par, coord>>

\* coord * (translate(t) * scale(s)): the point as a row vector on the left
ApplyTranslateScale ==
    /\ op' = "translate*scale"
    /\ res' = Returned("point",
                  VecMul(coord, MatMul(translate(par.t[1], par.t[2], par.t[3]),
                                       scale(par.s[1], par.s[2], par.s[3]))))
    /\ UNCHANGED <<M, par, coord>>

NextTransform == Translate \/ Scale \/ ApplyTranslateScale

SpecTransform == InitTransform /\ [][NextTransform]_vars

\* the scenario of the claim: translate(1,2,3) x scale(2,2,2)
C9_Scenario ==
    /\ op = "translate*scale"
    /\ par.t = <<R(1), R(2), R(3)>>
    /\ par.s = <<R(2), R(2), R(2)>>

(* C9 as stated: translate(1,2,3) x scale(2,2,2) applied to the row vector *)
(* (0,0,0,1) yields (1,2,3,1), and applied to (1,0,0,1) yields (3,2,3,1).  *)
C9_AsStated ==
    C9_Scenario =>
        /\ coord = <<Zero, Zero, Zero, One>> => res.val = <<R(1), R(2), R(3), One>>
        /\ coord = <<One, Zero, Zero, One>> => res.val = <<R(3), R(2), R(3), One>>

(* C9 amended: translate(1,2,3) x scale(2,2,2) applied to the row vector   *)
(* (0,0,0,1) yields (2,4,6,1), and applied to (1,0,0,1) yields (4,4,6,1).  *)
C9_TranslateThenScale ==
    C9_Scenario =>
        /\ coord = <<Zero, Zero, Zero, One>> => res.val = <<R(2), R(4), R(6), One>>
        /\ coord = <<One, Zero, Zero, One>> => res.val = <<R(4), R(4), R(6), One>>

C9_Witness ==
    /\ C9_Scenario
    /\ coord = <<One, Zero, Zero, One>>
    /\ res.val = <<R(4), R(4), R(6), One>>

---------------------------------------------------------------------------
(* random_euclidean_matrix: builders accumulated by right-multiplication.  *)

\* the loop runs at most MaxSteps times (the code draws steps from 1..10)
MaxSteps == 3

\* Rotation angles of the model, in degrees, within [0, 180).  Deg53 is
\* 2*atan(1/2) (53.13 degrees to two decimal places): cos 3/5, sin 4/5.
Deg53 == <<5313, 100>>
Deg90 == R(90)
Angles == {Deg53, Deg90}

\* cos(radians(angle))
Cos(angle) ==
    CASE angle = Deg53 -> <<3, 5>>
      [] angle = Deg90 -> Zero

\* sin(radians(angle))
Sin(angle) ==
    CASE angle = Deg53 -> <<4, 5>>
      [] angle = Deg90 -> One

rotate_x(angle) ==
    Matrix(<< <<One,  Zero,            Zero,       Zero>>,
              <<Zero, Cos(angle),      Sin(angle), Zero>>,
              <<Zero, Neg(Sin(angle)), Cos(angle), Zero>>,
              <<Zero, Zero,            Zero,       One>> >>)

rotate_y(angle) ==
    Matrix(<< <<Cos(angle), Zero, Neg(Sin(angle)), Zero>>,
              <<Zero,       One,  Zero,            Zero>>,
              <<Sin(angle), Zero, Cos(angle),      Zero>>,
              <<Zero,       Zero, Zero,            One>> >>)

rotate_z(angle) ==
    Matrix(<< <<Cos(angle),      Sin(angle), Zero, Zero>>,
              <<Neg(Sin(angle)), Cos(angle), Zero, Zero>>,
              <<Zero,            Zero,       One,  Zero>>,
              <<Zero,            Zero,       Zero, One>> >>)

\* random.random() * multiplier, with multiplier = 1: values in [0, 1)
Randoms == {Zero, <<1, 2>>}

\* m = np.identity(4), before the first iteration
InitEuclidean ==
    /\ M = Identity
    /\ par = [i |-> 0]
    /\ coord = NoCoord
    /\ op = "none"
    /\ res = NoResult

\* One iteration of the loop, per value of choice: m = m * <builder result>.

StepTranslate ==
    /\ par.i < MaxSteps
    /\ \E x \in Randoms, y \in Randoms, z \in Randoms :
          /\ res' = Returned("matrix", translate(x, y, z))
          /\ M' = MatMul(M, translate(x, y, z))
    /\ par' = [i |-> par.i + 1]
    /\ op' = "translate"
    /\ UNCHANGED coord

StepScale ==
    /\ par.i < MaxSteps
    /\ \E x \in Randoms, y \in Randoms, z \in Randoms :
          /\ res' = Returned("matrix", scale(x, y, z))
          /\ M' = MatMul(M, scale(x, y, z))
    /\ par' = [i |-> par.i + 1]
    /\ op' = "scale"
    /\ UNCHANGED coord

StepRotateX ==
    /\ par.i < MaxSteps
    /\ \E angle \in Angles :
          /\ res' = Returned("matrix", rotate_x(angle))
          /\ M' = MatMul(M, rotate_x(angle))
    /\ par' = [i |-> par.i + 1]
    /\ op' = "rotate_x"
    /\ UNCHANGED coord

StepRotateY ==
    /\ par.i < MaxSteps
    /\ \E angle \in Angles :
          /\ res' = Returned("matrix", rotate_y(angle))
          /\ M' = MatMul(M, rotate_y(angle))
    /\ par' = [i |-> par.i + 1]
    /\ op' = "rotate_y"
    /\ UNCHANGED coord

StepRotateZ ==
    /\ par.i < MaxSteps
    /\ \E angle \in Angles :
          /\ res' = Returned("matrix", rotate_z(angle))
          /\ M' = MatMul(M, rotate_z(angle))
    /\ par' = [i |-> par.i + 1]
    /\ op' = "rotate_z"
    /\ UNCHANGED coord

NextEuclidean ==
    StepTranslate \/ StepScale \/ StepRotateX \/ StepRotateY \/ StepRotateZ

SpecEuclidean == InitEuclidean /\ [][NextEuclidean]_vars

(* C11: starting from the identity, after any sequence of                  *)
(* right-multiplications by matrices returned from translate, scale,       *)
(* rotate_x, rotate_y and rotate_z, the accumulated matrix has last column *)
(* exactly (0,0,0,1).                                                      *)
C11_EuclideanClosure == IsEuclidean(M)

C11_Witness ==
    /\ par.i = MaxSteps
    /\ op = "translate"
    /\ M[3][0] # Zero
    /\ M[0][1] # Zero
    /\ M[0][0] \notin {Zero, One}
    /\ IsEuclidean(M)

=============================================================================
